---- MODULE Spec2Model ----
(***************************************************************************)
(* Model of loadTest/online_boutique_locust.py: the OnlineBoutiqueUser     *)
(* session (on_start, _load_products, _choose_product and the six weighted *)
(* tasks) driven against an HTTP client whose responses are chosen by the  *)
(* environment.  A session yields only while a request is in flight or     *)
(* while it waits between two tasks, so every action below runs the code   *)
(* between two such points.                                                *)
(*                                                                         *)
(* Text is modelled as a sequence of tokens: the literal "/product/", the  *)
(* identifier characters "A" and "-", and "<" for any other character.     *)
(* The empty string "" is the empty sequence.                              *)
(***************************************************************************)
EXTENDS Integers, Sequences, FiniteSets, TLC

VARIABLES
    state,        \* lifecycle of each session: UNINITIALIZED, ACTIVE, TERMINATED
    pc,           \* position of each session in its code
    product_ids,  \* self.product_ids
    cart_items,   \* self.cart_items
    locals,       \* pid, qty of a running add_to_cart
    req,          \* the request a session has in flight
    task,         \* the handler of the current (or last) cycle
    pre,          \* product_ids and cart_items when the current cycle began
    log,          \* requests issued in the current cycle, in order
    failures,     \* failures reported to the result channel in the current cycle
    got,          \* responses received in the current cycle, in order
    added,        \* lines chosen by add_to_cart since the last successful checkout
    stop,         \* the scheduler's stop signal
    draw          \* the value last drawn for each session when the selector is sampled

vars == <<state, pc, product_ids, cart_items, locals, req, task, pre, log, failures, got, added,
          stop, draw>>

----------------------------------------------------------------------------
(* Bounds *)

NumUsers == 2
MaxBodyLen == 4
MaxCart == 2
PopBodyLen == 2
PopMaxCart == 1

Users == 1..NumUsers

----------------------------------------------------------------------------
(* Text, requests and responses *)

Prefix == "/product/"
IdChars == {"A", "-"}
Alphabet == {Prefix, "<"} \cup IdChars

BodiesUpTo(n) == UNION {[1..k -> Alphabet] : k \in 0..n}

\* The pages the server may return for GET /.
Bodies == BodiesUpTo(MaxBodyLen)
PopBodies == BodiesUpTo(PopBodyLen)

\* An empty page and a page with one product link.
StopBodies == {<<>>, <<Prefix, "A">>}

CURRENCIES == <<"USD", "EUR", "JPY", "GBP", "CAD", "AUD">>

MinQty == 1
MaxQty == 3

NoData == [product_id |-> <<>>, quantity |-> 0, currency_code |-> "", form |-> "none"]
NoReq == [method |-> "none", path |-> <<>>, name |-> "none", data |-> NoData]
NoLocals == [pid |-> <<>>, qty |-> 0]

GetIndex == [method |-> "GET", path |-> <<"/">>, name |-> "index", data |-> NoData]

PostSetCurrency(currency) ==
    [method |-> "POST", path |-> <<"/setCurrency">>, name |-> "setCurrency",
     data |-> [NoData EXCEPT !.currency_code = currency]]

GetProduct(pid) ==
    [method |-> "GET", path |-> <<Prefix>> \o pid, name |-> "product", data |-> NoData]

PostCart(pid, qty) ==
    [method |-> "POST", path |-> <<"/cart">>, name |-> "cart:add",
     data |-> [NoData EXCEPT !.product_id = pid, !.quantity = qty]]

GetCart == [method |-> "GET", path |-> <<"/cart">>, name |-> "cart:view", data |-> NoData]

PostCheckout ==
    [method |-> "POST", path |-> <<"/cart/checkout">>, name |-> "cart:checkout",
     data |-> [NoData EXCEPT !.form = "checkout"]]

\* Status 0 stands for a transport error (no HTTP response at all).
Statuses == {200, 500, 0}
Responses(B) == [status : Statuses, body : B]
PlainResponses == Responses({<<>>})

\* What GET / of the index task may return: its body is never read, so an
\* empty page and a page with one product link stand for all pages.
IndexResponses == Responses(StopBodies)

\* resp.ok
Ok(resp) == resp.status >= 200 /\ resp.status < 400

\* A request made without catch_response is reported as a failure by the
\* client itself exactly when the response is not ok.
PlainReport(resp) == IF Ok(resp) THEN 0 ELSE 1

----------------------------------------------------------------------------
(* PRODUCT_HREF_RE.findall *)

\* Last index of the maximal run of identifier characters that starts at i.
RECURSIVE RunEnd(_, _)
RunEnd(body, i) ==
    IF i + 1 <= Len(body) /\ body[i + 1] \in IdChars
    THEN RunEnd(body, i + 1)
    ELSE i

RECURSIVE FindAllFrom(_, _)
FindAllFrom(body, i) ==
    IF i > Len(body) THEN <<>>
    ELSE IF body[i] = Prefix /\ i + 1 <= Len(body) /\ body[i + 1] \in IdChars
         THEN <<SubSeq(body, i + 1, RunEnd(body, i + 1))>>
                  \o FindAllFrom(body, RunEnd(body, i + 1) + 1)
         ELSE FindAllFrom(body, i + 1)

FindAll(body) == FindAllFrom(body, 1)

----------------------------------------------------------------------------
(* The code of the handlers, as functions of the values they read *)

\* Faulty variant: the page is parsed whatever the status.
LoadProductsIds_ParsesFailures(ids, resp) == FindAll(resp.body)

\* _load_products: self.product_ids after the response to GET /.
LoadProductsIds(ids, resp) == IF Ok(resp) THEN FindAll(resp.body) ELSE ids

\* Faulty variant: a failed GET / is swallowed without a report.
LoadProductsFails_Silent(resp) == 0

\* _load_products: resp.failure(...) is called once when the response is not ok.
LoadProductsFails(resp) == IF Ok(resp) THEN 0 ELSE 1

\* Faulty variant: the index task parses the page it gets.
IndexIds_Refreshes(ids, resp) == IF Ok(resp) THEN FindAll(resp.body) ELSE ids

\* index: the response to GET / is dropped, product_ids is not written.
IndexIds(ids, resp) == ids

\* Faulty variant: _choose_product refreshes on every call.
NeedsRefresh_Always(ids) == TRUE

\* _choose_product: "if not self.product_ids" before the refresh.
NeedsRefresh(ids) == ids = <<>>

\* _choose_product: the values it can return once the refresh (if any) is over.
ChooseProduct(ids) == IF ids = <<>> THEN {<<>>} ELSE {ids[i] : i \in DOMAIN ids}

\* Faulty variant: the guard on the empty identifier is missing.
NoPid_Unguarded(pid) == FALSE

\* browse_product, add_to_cart: "if not pid: return".
NoPid(pid) == pid = <<>>

\* Faulty variant: a line for a product already in the cart is merged into
\* the existing line (quantities added) instead of being appended.
RECURSIVE MergeLine(_, _, _)
MergeLine(cart, pid, qty) ==
    IF cart = <<>> THEN <<>>
    ELSE IF Head(cart)[1] = pid
         THEN <<<<pid, Head(cart)[2] + qty>>>> \o Tail(cart)
         ELSE <<Head(cart)>> \o MergeLine(Tail(cart), pid, qty)

AppendLine_Merges(cart, pid, qty) ==
    IF \E i \in DOMAIN cart : cart[i][1] = pid
    THEN MergeLine(cart, pid, qty)
    ELSE Append(cart, <<pid, qty>>)

\* Faulty variant: the quantity is drawn from 0 on.
Quantities_FromZero == 0..MaxQty

\* add_to_cart: random.randint(1, 3), both ends included.
Quantities == MinQty..MaxQty

\* add_to_cart: self.cart_items.append((pid, qty)).
AppendLine(cart, pid, qty) == Append(cart, <<pid, qty>>)

\* Faulty variant: a failed POST /cart takes the new line back.
CartAfterAdd_RollsBack(cart, resp) ==
    IF Ok(resp) THEN cart ELSE SubSeq(cart, 1, Len(cart) - 1)

\* add_to_cart: the response to POST /cart is not looked at.
CartAfterAdd(cart, resp) == cart

\* Faulty variant: checkout posts even when the cart is empty.
CheckoutSkips_Never(cart) == FALSE

\* checkout: "if not self.cart_items: return".
CheckoutSkips(cart) == cart = <<>>

\* Faulty variant: a successful checkout removes the first line only.
CheckoutCart_PopsOne(cart, resp) == IF Ok(resp) THEN Tail(cart) ELSE cart

\* Faulty variant: the cart is cleared whatever the response.
CheckoutCart_AlwaysClears(cart, resp) == <<>>

\* Faulty variant: the test on resp.ok is inverted.
CheckoutCart_ClearsOnFailure(cart, resp) == IF Ok(resp) THEN cart ELSE <<>>

\* checkout: self.cart_items.clear() on resp.ok only.
CheckoutCart(cart, resp) == IF Ok(resp) THEN <<>> ELSE cart

\* checkout: resp.failure(...) when the response is not ok.
CheckoutFails(resp) == IF Ok(resp) THEN 0 ELSE 1

\* Faulty variant: a failed first GET / keeps the session from running.
OnStartState_NeedsIndex(resp) == IF Ok(resp) THEN "ACTIVE" ELSE "UNINITIALIZED"

\* on_start returns normally whatever the response: the session runs.
OnStartState(resp) == "ACTIVE"

\* Faulty variant: a failed request stops the user.
AfterResponse_StopsOnFailure(st, resp) == IF Ok(resp) THEN st ELSE "TERMINATED"

\* No handler raises or stops the user on a response.
AfterResponse(st, resp) == st

\* Faulty variant: cart_items is one list shared by every instance (an
\* attribute of the class).
StoreCart_Shared(carts, u, c) == [v \in DOMAIN carts |-> c]

\* product_ids and cart_items are attributes of the instance, created in
\* on_start: a session writes its own only.
StoreCart(carts, u, c) == [carts EXCEPT ![u] = c]
StoreIds(idss, u, ids) == [idss EXCEPT ![u] = ids]

Snapshot(u) == [product_ids |-> product_ids[u], cart_items |-> cart_items[u]]
LogEntry(r) == <<r.method, r.path>>

----------------------------------------------------------------------------
(* The weighted task mix: @task(1) index, @task(2) set_currency,          *)
(* @task(10) browse_product, @task(2) add_to_cart, @task(3) view_cart,     *)
(* @task(1) checkout.                                                      *)

\* Faulty variant: the weights of browse_product and add_to_cart are swapped.
Tasks_SwappedWeights ==
    << [name |-> "index", weight |-> 1],
       [name |-> "setCurrency", weight |-> 2],
       [name |-> "browseProduct", weight |-> 2],
       [name |-> "addToCart", weight |-> 10],
       [name |-> "viewCart", weight |-> 3],
       [name |-> "checkout", weight |-> 1] >>

Tasks ==
    << [name |-> "index", weight |-> 1],
       [name |-> "setCurrency", weight |-> 2],
       [name |-> "browseProduct", weight |-> 10],
       [name |-> "addToCart", weight |-> 2],
       [name |-> "viewCart", weight |-> 3],
       [name |-> "checkout", weight |-> 1] >>

RECURSIVE WeightUpTo(_)
WeightUpTo(k) == IF k = 0 THEN 0 ELSE WeightUpTo(k - 1) + Tasks[k].weight

TotalWeight == WeightUpTo(Len(Tasks))

\* The task whose cumulative-weight range contains r.
Select(r) ==
    Tasks[CHOOSE k \in DOMAIN Tasks : WeightUpTo(k - 1) <= r /\ r < WeightUpTo(k)].name

\* The tasks a draw of r in [0, TotalWeight) can select.
Selectable == {Select(r) : r \in 0..(TotalWeight - 1)}

\* No value drawn yet.
NoDraw == -1

----------------------------------------------------------------------------
(* Initial state: the sessions exist but none has been started. *)

Init ==
    /\ state = [u \in Users |-> "UNINITIALIZED"]
    /\ pc = [u \in Users |-> "new"]
    /\ product_ids = [u \in Users |-> <<>>]
    /\ cart_items = [u \in Users |-> <<>>]
    /\ locals = [u \in Users |-> NoLocals]
    /\ req = [u \in Users |-> NoReq]
    /\ task = [u \in Users |-> "none"]
    /\ pre = [u \in Users |-> [product_ids |-> <<>>, cart_items |-> <<>>]]
    /\ log = [u \in Users |-> <<>>]
    /\ failures = [u \in Users |-> 0]
    /\ got = [u \in Users |-> <<>>]
    /\ added = [u \in Users |-> <<>>]
    /\ stop = FALSE
    /\ draw = [u \in Users |-> NoDraw]

----------------------------------------------------------------------------
(* on_start *)

\* on_start up to the GET / of _load_products.
OnStart(u) ==
    /\ pc[u] = "new"
    /\ ~stop
    /\ product_ids' = StoreIds(product_ids, u, <<>>)
    /\ cart_items' = StoreCart(cart_items, u, <<>>)
    /\ got' = [got EXCEPT ![u] = <<>>]
    /\ added' = [added EXCEPT ![u] = <<>>]
    /\ task' = [task EXCEPT ![u] = "on_start"]
    /\ pre' = [pre EXCEPT ![u] = [product_ids |-> <<>>, cart_items |-> <<>>]]
    /\ req' = [req EXCEPT ![u] = GetIndex]
    /\ log' = [log EXCEPT ![u] = <<LogEntry(GetIndex)>>]
    /\ failures' = [failures EXCEPT ![u] = 0]
    /\ pc' = [pc EXCEPT ![u] = "on_start"]
    /\ UNCHANGED <<state, locals, stop, draw>>

\* The rest of _load_products and the return of on_start.
OnStartDone(u, B) ==
    /\ pc[u] = "on_start"
    /\ \E resp \in Responses(B) :
        /\ product_ids' = StoreIds(product_ids, u, LoadProductsIds(product_ids[u], resp))
        /\ failures' = [failures EXCEPT ![u] = @ + LoadProductsFails(resp)]
        /\ state' = [state EXCEPT ![u] = OnStartState(resp)]
        /\ got' = [got EXCEPT ![u] = Append(@, resp)]
    /\ req' = [req EXCEPT ![u] = NoReq]
    /\ pc' = [pc EXCEPT ![u] = "wait"]
    /\ UNCHANGED <<cart_items, locals, task, pre, log, added, stop, draw>>

----------------------------------------------------------------------------
(* The tasks.  A task starts when the session is between two cycles.       *)

\* Faulty variant: a task is started without waiting for the running one.
CanRun_Overlapping(u, name) ==
    /\ state[u] = "ACTIVE"
    /\ pc[u] \notin {"new", "on_start", "add_appended"}
    /\ ~stop
    /\ name \in Selectable

CanRun(u, name) ==
    /\ state[u] = "ACTIVE"
    /\ pc[u] = "wait"
    /\ ~stop
    /\ name \in Selectable

\* What every task start does to the cycle's bookkeeping.
Begin(u, name) ==
    /\ task' = [task EXCEPT ![u] = name]
    /\ pre' = [pre EXCEPT ![u] = Snapshot(u)]
    /\ failures' = [failures EXCEPT ![u] = 0]
    /\ got' = [got EXCEPT ![u] = <<>>]

\* A task that makes one plain request and ignores the response.
PlainDone(u, at) ==
    /\ pc[u] = at
    /\ \E resp \in (IF at = "index" THEN IndexResponses ELSE PlainResponses) :
        /\ failures' = [failures EXCEPT ![u] = @ + PlainReport(resp)]
        /\ state' = [state EXCEPT ![u] = AfterResponse(@, resp)]
        /\ cart_items' = IF at = "add_post"
                         THEN StoreCart(cart_items, u, CartAfterAdd(cart_items[u], resp))
                         ELSE cart_items
        /\ product_ids' = IF at = "index"
                          THEN StoreIds(product_ids, u, IndexIds(product_ids[u], resp))
                          ELSE product_ids
        /\ got' = [got EXCEPT ![u] = Append(@, resp)]
    /\ req' = [req EXCEPT ![u] = NoReq]
    /\ pc' = [pc EXCEPT ![u] = "wait"]
    /\ UNCHANGED <<locals, task, pre, log, added, stop, draw>>

Index(u) ==
    /\ CanRun(u, "index")
    /\ Begin(u, "index")
    /\ req' = [req EXCEPT ![u] = GetIndex]
    /\ log' = [log EXCEPT ![u] = <<LogEntry(GetIndex)>>]
    /\ pc' = [pc EXCEPT ![u] = "index"]
    /\ locals' = [locals EXCEPT ![u] = NoLocals]
    /\ UNCHANGED <<state, product_ids, cart_items, added, stop, draw>>

IndexDone(u) == PlainDone(u, "index")

SetCurrency(u) ==
    /\ CanRun(u, "setCurrency")
    /\ Begin(u, "setCurrency")
    /\ \E i \in DOMAIN CURRENCIES :
        /\ req' = [req EXCEPT ![u] = PostSetCurrency(CURRENCIES[i])]
        /\ log' = [log EXCEPT ![u] = <<LogEntry(PostSetCurrency(CURRENCIES[i]))>>]
    /\ pc' = [pc EXCEPT ![u] = "setCurrency"]
    /\ locals' = [locals EXCEPT ![u] = NoLocals]
    /\ UNCHANGED <<state, product_ids, cart_items, added, stop, draw>>

SetCurrencyDone(u) == PlainDone(u, "setCurrency")

ViewCart(u) ==
    /\ CanRun(u, "viewCart")
    /\ Begin(u, "viewCart")
    /\ req' = [req EXCEPT ![u] = GetCart]
    /\ log' = [log EXCEPT ![u] = <<LogEntry(GetCart)>>]
    /\ pc' = [pc EXCEPT ![u] = "view"]
    /\ locals' = [locals EXCEPT ![u] = NoLocals]
    /\ UNCHANGED <<state, product_ids, cart_items, added, stop, draw>>

ViewCartDone(u) == PlainDone(u, "view")

----------------------------------------------------------------------------
(* browse_product *)

\* browse_product from the return of _choose_product on: ids is
\* self.product_ids at that point and lg the requests of the cycle so far.
BrowseChosen(u, ids, lg) ==
    \E pid \in ChooseProduct(ids) :
        IF NoPid(pid)
        THEN /\ req' = [req EXCEPT ![u] = NoReq]
             /\ log' = [log EXCEPT ![u] = lg]
             /\ pc' = [pc EXCEPT ![u] = "wait"]
        ELSE /\ req' = [req EXCEPT ![u] = GetProduct(pid)]
             /\ log' = [log EXCEPT ![u] = Append(lg, LogEntry(GetProduct(pid)))]
             /\ pc' = [pc EXCEPT ![u] = "browse_get"]

BrowseProduct(u) ==
    /\ CanRun(u, "browseProduct")
    /\ Begin(u, "browseProduct")
    /\ IF NeedsRefresh(product_ids[u])
       THEN /\ req' = [req EXCEPT ![u] = GetIndex]
            /\ log' = [log EXCEPT ![u] = <<LogEntry(GetIndex)>>]
            /\ pc' = [pc EXCEPT ![u] = "browse_reload"]
       ELSE BrowseChosen(u, product_ids[u], <<>>)
    /\ locals' = [locals EXCEPT ![u] = NoLocals]
    /\ UNCHANGED <<state, product_ids, cart_items, added, stop, draw>>

\* The response to the refresh, then the rest of browse_product.
BrowseReloaded(u, B) ==
    /\ pc[u] = "browse_reload"
    /\ \E resp \in Responses(B) :
        /\ product_ids' = StoreIds(product_ids, u, LoadProductsIds(product_ids[u], resp))
        /\ failures' = [failures EXCEPT ![u] = @ + LoadProductsFails(resp)]
        /\ state' = [state EXCEPT ![u] = AfterResponse(@, resp)]
        /\ got' = [got EXCEPT ![u] = Append(@, resp)]
        /\ BrowseChosen(u, LoadProductsIds(product_ids[u], resp), log[u])
    /\ UNCHANGED <<cart_items, locals, task, pre, added, stop, draw>>

BrowseProductDone(u) == PlainDone(u, "browse_get")

----------------------------------------------------------------------------
(* add_to_cart *)

\* add_to_cart from the return of _choose_product to the append.
AddChosen(u, ids) ==
    \E pid \in ChooseProduct(ids) :
        IF NoPid(pid)
        THEN /\ pc' = [pc EXCEPT ![u] = "wait"]
             /\ locals' = [locals EXCEPT ![u] = NoLocals]
             /\ UNCHANGED <<cart_items, added>>
        ELSE \E qty \in Quantities :
             /\ cart_items' = StoreCart(cart_items, u, AppendLine(cart_items[u], pid, qty))
             /\ added' = [added EXCEPT ![u] = Append(@, <<pid, qty>>)]
             /\ locals' = [locals EXCEPT ![u] = [pid |-> pid, qty |-> qty]]
             /\ pc' = [pc EXCEPT ![u] = "add_appended"]

AddToCart(u, cap) ==
    /\ CanRun(u, "addToCart")
    /\ Len(cart_items[u]) < cap
    /\ Begin(u, "addToCart")
    /\ IF NeedsRefresh(product_ids[u])
       THEN /\ req' = [req EXCEPT ![u] = GetIndex]
            /\ log' = [log EXCEPT ![u] = <<LogEntry(GetIndex)>>]
            /\ pc' = [pc EXCEPT ![u] = "add_reload"]
            /\ locals' = [locals EXCEPT ![u] = NoLocals]
            /\ UNCHANGED <<cart_items, added>>
       ELSE /\ AddChosen(u, product_ids[u])
            /\ req' = [req EXCEPT ![u] = NoReq]
            /\ log' = [log EXCEPT ![u] = <<>>]
    /\ UNCHANGED <<state, product_ids, stop, draw>>

AddReloaded(u, B) ==
    /\ pc[u] = "add_reload"
    /\ \E resp \in Responses(B) :
        /\ product_ids' = StoreIds(product_ids, u, LoadProductsIds(product_ids[u], resp))
        /\ failures' = [failures EXCEPT ![u] = @ + LoadProductsFails(resp)]
        /\ state' = [state EXCEPT ![u] = AfterResponse(@, resp)]
        /\ got' = [got EXCEPT ![u] = Append(@, resp)]
        /\ AddChosen(u, LoadProductsIds(product_ids[u], resp))
    /\ req' = [req EXCEPT ![u] = NoReq]
    /\ UNCHANGED <<task, pre, log, stop, draw>>

\* self.client.post("/cart", ...) with the pid and qty just appended.
AddPost(u) ==
    /\ pc[u] = "add_appended"
    /\ req' = [req EXCEPT ![u] = PostCart(locals[u].pid, locals[u].qty)]
    /\ log' = [log EXCEPT ![u] = Append(@, LogEntry(PostCart(locals[u].pid, locals[u].qty)))]
    /\ pc' = [pc EXCEPT ![u] = "add_post"]
    /\ UNCHANGED <<state, product_ids, cart_items, locals, task, pre, failures, got, added, stop, draw>>

AddToCartDone(u) == PlainDone(u, "add_post")

----------------------------------------------------------------------------
(* checkout *)

Checkout(u) ==
    /\ CanRun(u, "checkout")
    /\ Begin(u, "checkout")
    /\ IF CheckoutSkips(cart_items[u])
       THEN /\ req' = [req EXCEPT ![u] = NoReq]
            /\ log' = [log EXCEPT ![u] = <<>>]
            /\ pc' = [pc EXCEPT ![u] = "wait"]
       ELSE /\ req' = [req EXCEPT ![u] = PostCheckout]
            /\ log' = [log EXCEPT ![u] = <<LogEntry(PostCheckout)>>]
            /\ pc' = [pc EXCEPT ![u] = "checkout"]
    /\ locals' = [locals EXCEPT ![u] = NoLocals]
    /\ UNCHANGED <<state, product_ids, cart_items, added, stop, draw>>

CheckoutDone(u) ==
    /\ pc[u] = "checkout"
    /\ \E resp \in PlainResponses :
        /\ cart_items' = StoreCart(cart_items, u, CheckoutCart(cart_items[u], resp))
        /\ failures' = [failures EXCEPT ![u] = @ + CheckoutFails(resp)]
        /\ state' = [state EXCEPT ![u] = AfterResponse(@, resp)]
        /\ got' = [got EXCEPT ![u] = Append(@, resp)]
        /\ added' = [added EXCEPT ![u] = IF Ok(resp) THEN <<>> ELSE @]
    /\ req' = [req EXCEPT ![u] = NoReq]
    /\ pc' = [pc EXCEPT ![u] = "wait"]
    /\ UNCHANGED <<product_ids, locals, task, pre, log, stop, draw>>

----------------------------------------------------------------------------
(* The scheduler: a stop signal (or the end of the run time), seen by a    *)
(* session when it is between two cycles.                                  *)

StopSignal ==
    /\ ~stop
    /\ stop' = TRUE
    /\ UNCHANGED <<state, pc, product_ids, cart_items, locals, req, task, pre, log, failures,
                   got, added, draw>>

\* Faulty variant: the stop kills a session wherever it is, a request in
\* flight included.
Terminate_MidRequest(u) ==
    /\ stop
    /\ state[u] # "TERMINATED"
    /\ pc[u] # "new"
    /\ state' = [state EXCEPT ![u] = "TERMINATED"]
    /\ UNCHANGED <<pc, product_ids, cart_items, locals, req, task, pre, log, failures, got,
                   added, stop, draw>>

Terminate(u) ==
    /\ stop
    /\ state[u] = "ACTIVE"
    /\ pc[u] = "wait"
    /\ state' = [state EXCEPT ![u] = "TERMINATED"]
    /\ UNCHANGED <<pc, product_ids, cart_items, locals, req, task, pre, log, failures, got,
                   added, stop, draw>>

----------------------------------------------------------------------------
(* Specifications *)

\* Every step session u can take, with the bodies the server may return
\* and the cap on the cart's length.
SessionStep(u, B, cap) ==
    \/ OnStart(u)
    \/ OnStartDone(u, B)
    \/ Index(u)
    \/ IndexDone(u)
    \/ SetCurrency(u)
    \/ SetCurrencyDone(u)
    \/ BrowseProduct(u)
    \/ BrowseReloaded(u, B)
    \/ BrowseProductDone(u)
    \/ AddToCart(u, cap)
    \/ AddReloaded(u, B)
    \/ AddPost(u)
    \/ AddToCartDone(u)
    \/ ViewCart(u)
    \/ ViewCartDone(u)
    \/ Checkout(u)
    \/ CheckoutDone(u)
    \/ Terminate(u)

\* One session.
Next ==
    \/ SessionStep(1, Bodies, MaxCart)
    \/ StopSignal

Spec == Init /\ [][Next]_vars

\* The whole population, with a smaller server and cart.
NextPop ==
    \/ \E u \in Users : SessionStep(u, PopBodies, PopMaxCart)
    \/ StopSignal

SpecPop == Init /\ [][NextPop]_vars

\* The selector on its own: it is sampled for a session again and again,
\* and task holds what it selected.
Sample(u) ==
    /\ \E r \in 0..(TotalWeight - 1) :
        /\ draw' = [draw EXCEPT ![u] = r]
        /\ task' = [task EXCEPT ![u] = Select(r)]
    /\ UNCHANGED <<state, pc, product_ids, cart_items, locals, req, pre, log, failures, got,
                   added, stop>>

NextSelect == \E u \in Users : Sample(u)

SpecSelect == Init /\ [][NextSelect]_vars

\* The whole population under fair scheduling (a runnable session is
\* scheduled, a request in flight is answered or times out), against a
\* server whose page is either empty or holds one product link.
NextStop ==
    \/ \E u \in Users : SessionStep(u, StopBodies, PopMaxCart)
    \/ StopSignal

SpecStop ==
    /\ Init
    /\ [][NextStop]_vars
    /\ \A u \in Users : WF_vars(SessionStep(u, StopBodies, PopMaxCart))

----------------------------------------------------------------------------
(* Vocabulary of the properties *)

\* The cycle of session u is over: its handler has returned.
CycleOver(u) == pc[u] = "wait"

\* Session u's state is what it was when the cycle began.
SessionUnchanged(u) ==
    /\ product_ids[u] = pre[u].product_ids
    /\ cart_items[u] = pre[u].cart_items

\* How many entries of the sequence lg equal e.
RECURSIVE Count(_, _)
Count(lg, e) ==
    IF lg = <<>> THEN 0
    ELSE (IF Head(lg) = e THEN 1 ELSE 0) + Count(Tail(lg), e)

----------------------------------------------------------------------------
(* C1: a checkout that starts on an empty cart issues no request at all,   *)
(* reports no failure and leaves product_ids and cart_items as they were.  *)

C1_CheckoutEmptyCartIsNoop ==
    \A u \in Users :
        (task[u] = "checkout" /\ pre[u].cart_items = <<>>) =>
            /\ CycleOver(u)
            /\ log[u] = <<>>
            /\ req[u] = NoReq
            /\ got[u] = <<>>
            /\ failures[u] = 0
            /\ SessionUnchanged(u)

C1_Witness ==
    /\ task[1] = "checkout"
    /\ pre[1].cart_items = <<>>
    /\ pre[1].product_ids # <<>>
    /\ CycleOver(1)

----------------------------------------------------------------------------
(* C2: a checkout that starts on a non-empty cart issues exactly one       *)
(* request, POST /cart/checkout; when the response is a success the cart   *)
(* is empty once the handler has returned, whatever the number of lines it *)
(* held, and product_ids is what it was.                                   *)

C2_CheckoutSuccessClearsCart ==
    \A u \in Users :
        (task[u] = "checkout" /\ pre[u].cart_items # <<>>) =>
            /\ log[u] = <<LogEntry(PostCheckout)>>
            /\ (CycleOver(u) /\ Ok(got[u][1])) =>
                   /\ Len(got[u]) = 1
                   /\ cart_items[u] = <<>>
                   /\ product_ids[u] = pre[u].product_ids

C2_Witness ==
    /\ task[1] = "checkout"
    /\ Len(pre[1].cart_items) = 2
    /\ CycleOver(1)
    /\ Ok(got[1][1])
    /\ cart_items[1] = <<>>

----------------------------------------------------------------------------
(* C3: a checkout on a non-empty cart whose request fails (a non-success   *)
(* status or a transport error) leaves the cart line for line what it was, *)
(* reports exactly one failure, and the session is still ACTIVE (it leaves *)
(* that state only on the scheduler's stop).                               *)

C3_CheckoutFailureKeepsCart ==
    \A u \in Users :
        (task[u] = "checkout" /\ pre[u].cart_items # <<>> /\ CycleOver(u) /\ ~Ok(got[u][1])) =>
            /\ cart_items[u] = pre[u].cart_items
            /\ failures[u] = 1
            /\ (state[u] = "ACTIVE" \/ stop)

C3_Witness ==
    /\ task[1] = "checkout"
    /\ Len(pre[1].cart_items) = 2
    /\ CycleOver(1)
    /\ got[1] = <<[status |-> 0, body |-> <<>>]>>
    /\ cart_items[1] = pre[1].cart_items
    /\ state[1] = "ACTIVE"

----------------------------------------------------------------------------
(* C4: a browse_product or add_to_cart cycle that starts with no known     *)
(* product issues exactly one GET / (its first request); if product_ids is *)
(* still empty afterwards, it issues nothing else.  No GET /product/{id}   *)
(* and no POST /cart is ever issued with an empty identifier.              *)

RefreshingCycle(u) ==
    /\ task[u] \in {"browseProduct", "addToCart"}
    /\ pre[u].product_ids = <<>>

C4_OneRediscoveryNoEmptyId ==
    \A u \in Users :
        /\ RefreshingCycle(u) =>
               /\ log[u] # <<>>
               /\ log[u][1] = LogEntry(GetIndex)
               /\ Count(log[u], LogEntry(GetIndex)) = 1
               /\ (pc[u] \notin {"browse_reload", "add_reload"} /\ product_ids[u] = <<>>) =>
                      /\ log[u] = <<LogEntry(GetIndex)>>
                      /\ CycleOver(u)
        /\ LogEntry(GetProduct(<<>>)) \notin {log[u][i] : i \in DOMAIN log[u]}
        /\ req[u].name = "product" => req[u].path # <<Prefix>>
        /\ req[u].name = "cart:add" => req[u].data.product_id # <<>>

C4_Witness ==
    /\ task[1] = "browseProduct"
    /\ pre[1].product_ids = <<>>
    /\ CycleOver(1)
    /\ product_ids[1] = <<>>
    /\ Len(got[1]) = 1
    /\ Ok(got[1][1])
    /\ got[1][1].body # <<>>

----------------------------------------------------------------------------
(* C5 as stated: a browse_product or add_to_cart cycle that starts with no *)
(* known product and still has none after the refresh reports no failure,  *)
(* whatever the outcome of the refresh request, and leaves the session     *)
(* state unchanged.                                                        *)

SkippedCycle(u) ==
    /\ RefreshingCycle(u)
    /\ CycleOver(u)
    /\ product_ids[u] = <<>>

C5_SkipReportsNoFailure ==
    \A u \in Users :
        SkippedCycle(u) =>
            /\ failures[u] = 0
            /\ SessionUnchanged(u)

(* C5 amended: such a cycle reports no failure for the skip itself and     *)
(* leaves the session state unchanged; it reports no failure when the      *)
(* refresh request succeeds and exactly one, that of the GET / request,    *)
(* when the refresh request fails.                                         *)

C5_SkipReportsOnlyFailedRefresh ==
    \A u \in Users :
        SkippedCycle(u) =>
            /\ log[u] = <<LogEntry(GetIndex)>>
            /\ Len(got[u]) = 1
            /\ failures[u] = (IF Ok(got[u][1]) THEN 0 ELSE 1)
            /\ SessionUnchanged(u)

C5_Witness ==
    /\ SkippedCycle(1)
    /\ task[1] = "addToCart"
    /\ ~Ok(got[1][1])
    /\ failures[1] = 1

----------------------------------------------------------------------------
(* C6: every add_to_cart that selects a product appends exactly one line   *)
(* at the end of the cart and leaves the lines already there as they are,  *)
(* also when one of them is for the same product: the cart is always the   *)
(* sequence, in order, of the lines chosen since the session started or    *)
(* last checked out successfully.                                          *)

C6_AddAlwaysAppends ==
    \A u \in Users :
        /\ cart_items[u] = added[u]
        /\ pc[u] \in {"add_appended", "add_post"} =>
               cart_items[u] = Append(pre[u].cart_items, <<locals[u].pid, locals[u].qty>>)

C6_Witness ==
    /\ cart_items[1] = << <<(<<"A">>), 2>>, <<(<<"A">>), 1>> >>
    /\ task[1] = "addToCart"
    /\ CycleOver(1)

----------------------------------------------------------------------------
(* C7: add_to_cart appends the line before it issues POST /cart, and a     *)
(* failed POST /cart does not take it back: after a failed add_to_cart the *)
(* cart is the cart before it plus the new line.                           *)

NewLine(u) == <<locals[u].pid, locals[u].qty>>

AddPosted(u) ==
    /\ task[u] = "addToCart"
    /\ log[u] # <<>>
    /\ log[u][Len(log[u])] = LogEntry(PostCart(locals[u].pid, locals[u].qty))

C7_OptimisticAddNoRollback ==
    \A u \in Users :
        /\ pc[u] = "add_appended" =>
               /\ ~AddPosted(u)
               /\ req[u] = NoReq
               /\ cart_items[u] = Append(pre[u].cart_items, NewLine(u))
        /\ req[u].name = "cart:add" =>
               /\ req[u] = PostCart(locals[u].pid, locals[u].qty)
               /\ cart_items[u] = Append(pre[u].cart_items, NewLine(u))
        /\ (AddPosted(u) /\ CycleOver(u) /\ ~Ok(got[u][Len(got[u])])) =>
               cart_items[u] = Append(pre[u].cart_items, NewLine(u))

C7_Witness ==
    /\ AddPosted(1)
    /\ CycleOver(1)
    /\ ~Ok(got[1][Len(got[1])])
    /\ pre[1].cart_items # <<>>
    /\ Len(cart_items[1]) = Len(pre[1].cart_items) + 1

----------------------------------------------------------------------------
(* C8: starting a session takes it from UNINITIALIZED to ACTIVE with an    *)
(* empty cart whether the first GET / succeeds or fails: on success        *)
(* product_ids is what the pattern finds in the body (possibly nothing),   *)
(* on failure it is empty and one failure is reported.                     *)

C8_StartAlwaysActivates ==
    \A u \in Users :
        /\ pc[u] \in {"new", "on_start"} => state[u] = "UNINITIALIZED"
        /\ (task[u] = "on_start" /\ CycleOver(u)) =>
               /\ (state[u] = "ACTIVE" \/ (stop /\ state[u] = "TERMINATED"))
               /\ cart_items[u] = <<>>
               /\ log[u] = <<LogEntry(GetIndex)>>
               /\ Len(got[u]) = 1
               /\ Ok(got[u][1]) =>
                      /\ product_ids[u] = FindAll(got[u][1].body)
                      /\ failures[u] = 0
               /\ ~Ok(got[u][1]) =>
                      /\ product_ids[u] = <<>>
                      /\ failures[u] = 1

C8_Witness ==
    /\ task[1] = "on_start"
    /\ CycleOver(1)
    /\ got[1][1].status = 500
    /\ got[1][1].body = <<Prefix, "A">>
    /\ state[1] = "ACTIVE"
    /\ product_ids[1] = <<>>

----------------------------------------------------------------------------
(* C9: sessions are isolated: a step of one session, a failed request or a *)
(* skipped cycle included, leaves the lifecycle state, product_ids and     *)
(* cart_items of every other session as they were, in every interleaving.  *)

\* The step changes something of session u.
Acted(u) ==
    \/ state'[u] # state[u]
    \/ pc'[u] # pc[u]
    \/ product_ids'[u] # product_ids[u]
    \/ cart_items'[u] # cart_items[u]
    \/ locals'[u] # locals[u]
    \/ req'[u] # req[u]
    \/ task'[u] # task[u]
    \/ log'[u] # log[u]
    \/ got'[u] # got[u]
    \/ failures'[u] # failures[u]

----------------------------------------------------------------------------
(* C10: no request failure stops a session: once a handler (or on_start)   *)
(* has returned after a failed request the session is ACTIVE and, unless   *)
(* the scheduler has signalled the stop, can start its next cycle; a       *)
(* session becomes TERMINATED only in a step of its own in which the stop  *)
(* has been signalled, it is between two cycles and nothing else of it     *)
(* changes.                                                                *)

SawFailure(u) == \E i \in DOMAIN got[u] : ~Ok(got[u][i])

C10_AfterFailureStillActive ==
    \A u \in Users :
        (CycleOver(u) /\ SawFailure(u)) =>
            \/ /\ state[u] = "ACTIVE"
               /\ ~stop => \A name \in Selectable : CanRun(u, name)
            \/ /\ state[u] = "TERMINATED"
               /\ stop

C10_TerminatesOnStopOnly ==
    \A u \in Users :
        (state[u] # "TERMINATED" /\ state'[u] = "TERMINATED") =>
            /\ stop
            /\ state[u] = "ACTIVE"
            /\ CycleOver(u)
            /\ pc'[u] = pc[u]
            /\ got'[u] = got[u]
            /\ failures'[u] = failures[u]

C10_FailureNeverStopsSession ==
    /\ []C10_AfterFailureStillActive
    /\ [][C10_TerminatesOnStopOnly]_vars

C10_Witness ==
    /\ task[1] = "checkout"
    /\ CycleOver(1)
    /\ SawFailure(1)
    /\ state[1] = "ACTIVE"
    /\ ~stop

----------------------------------------------------------------------------
(* C11: once the stop is signalled, every session that was started         *)
(* eventually is TERMINATED; after the stop no session starts a new cycle, *)
(* a terminated session does nothing more, and a session is never          *)
(* terminated while it has a request in flight (the request completes).    *)

Started(u) == pc[u] # "new"

AllStartedTerminated == \A u \in Users : Started(u) => state[u] = "TERMINATED"

\* The step starts a cycle of session u.
StartsCycle(u) ==
    /\ pc[u] = "wait"
    /\ state'[u] = state[u]
    /\ Acted(u)

C11_NoNewCycleAfterStop ==
    \A u \in Users :
        /\ stop => ~StartsCycle(u)
        /\ state[u] = "TERMINATED" => ~Acted(u)

C11_InFlightCompletes ==
    \A u \in Users :
        /\ (req[u] # NoReq \/ ~CycleOver(u)) => state[u] # "TERMINATED"
        /\ state[u] = "TERMINATED" => stop

C11_StopTerminatesEverySession ==
    /\ stop ~> AllStartedTerminated
    /\ [][C11_NoNewCycleAfterStop]_vars
    /\ []C11_InFlightCompletes

C11_Witness ==
    /\ stop
    /\ \A u \in Users : Started(u) /\ state[u] = "TERMINATED"
    /\ task[1] = "addToCart"
    /\ Len(log[1]) = 2
    /\ task[2] = "checkout"
    /\ got[2] # <<>>

----------------------------------------------------------------------------
(* C12: the tasks and weights are index 1, setCurrency 2, browseProduct    *)
(* 10, addToCart 2, viewCart 3, checkout 1 (19 in all, each at least 1);   *)
(* every value r of 0..18 lies in the cumulative-weight range of exactly   *)
(* one task, which is the task selected for r, and exactly weight-many     *)
(* values of r select each task.                                           *)

StatedWeights ==
    [index |-> 1, setCurrency |-> 2, browseProduct |-> 10, addToCart |-> 2,
     viewCart |-> 3, checkout |-> 1]

\* The positions of the tasks whose cumulative-weight range contains r.
RangesWith(r) == {k \in DOMAIN Tasks : WeightUpTo(k - 1) <= r /\ r < WeightUpTo(k)}

C12_SelectorFollowsWeights ==
    /\ TotalWeight = 19
    /\ {Tasks[k].name : k \in DOMAIN Tasks} = DOMAIN StatedWeights
    /\ \A k \in DOMAIN Tasks :
        /\ Tasks[k].weight >= 1
        /\ Tasks[k].weight = StatedWeights[Tasks[k].name]
        /\ Cardinality({r \in 0..(TotalWeight - 1) : Select(r) = Tasks[k].name})
               = StatedWeights[Tasks[k].name]
    /\ \A u \in Users :
        draw[u] # NoDraw =>
            /\ draw[u] \in 0..18
            /\ Cardinality(RangesWith(draw[u])) = 1
            /\ \A k \in RangesWith(draw[u]) : task[u] = Tasks[k].name

C12_Witness ==
    /\ draw[1] = 18
    /\ task[1] = "checkout"
    /\ draw[2] = 12
    /\ task[2] = "browseProduct"

----------------------------------------------------------------------------
(* C13: product_ids holds each discovered identifier at most once, also    *)
(* when the page links the same product more than once (so that a uniform  *)
(* pick over it gives every distinct product the same chance).             *)

C13_IdsHeldOnce ==
    \A u \in Users :
        \A i, j \in DOMAIN product_ids[u] :
            i # j => product_ids[u][i] # product_ids[u][j]

----------------------------------------------------------------------------
(* C14: a session runs its cycles one after the other: it has at most one  *)
(* request in flight, a request is issued only when none is in flight or   *)
(* in the step that receives the answer to the one in flight, and when a   *)
(* cycle is over (the pause and the next cycle can begin) every request of *)
(* the cycle has been answered.                                            *)

C14_OneRequestInFlight ==
    \A u \in Users :
        /\ Len(log[u]) - Len(got[u]) \in {0, 1}
        /\ (req[u] # NoReq) <=> (Len(log[u]) = Len(got[u]) + 1)
        /\ req[u] # NoReq => LogEntry(req[u]) = log[u][Len(log[u])]
        /\ CycleOver(u) => (req[u] = NoReq /\ Len(log[u]) = Len(got[u]))

\* The step issues a request of session u.
Issues(u) == req'[u] # NoReq /\ (req'[u] # req[u] \/ log'[u] # log[u])

C14_IssuesAfterAnswer ==
    \A u \in Users :
        Issues(u) => (req[u] = NoReq \/ Len(got'[u]) = Len(got[u]) + 1)

C14_CyclesSequential ==
    /\ []C14_OneRequestInFlight
    /\ [][C14_IssuesAfterAnswer]_vars

C14_Witness ==
    /\ task[1] = "browseProduct"
    /\ Len(log[1]) = 2
    /\ Len(got[1]) = 1
    /\ req[1].name = "product"

----------------------------------------------------------------------------
(* C15: the index, set_currency and view_cart tasks each issue exactly one *)
(* request (GET /, POST /setCurrency, GET /cart) and leave product_ids and *)
(* cart_items as they were whether the request succeeds or fails; the      *)
(* index task does not fill product_ids, also when it is empty and the     *)
(* page holds product links.                                               *)

PlainTaskRequest(name) ==
    CASE name = "index" -> <<"GET", <<"/">>>>
      [] name = "setCurrency" -> <<"POST", <<"/setCurrency">>>>
      [] name = "viewCart" -> <<"GET", <<"/cart">>>>

C15_PlainTasksKeepState ==
    \A u \in Users :
        task[u] \in {"index", "setCurrency", "viewCart"} =>
            /\ log[u] = <<PlainTaskRequest(task[u])>>
            /\ SessionUnchanged(u)
            /\ CycleOver(u) => Len(got[u]) = 1

C15_Witness ==
    /\ task[1] = "index"
    /\ CycleOver(1)
    /\ pre[1].product_ids = <<>>
    /\ Ok(got[1][1])
    /\ FindAll(got[1][1].body) # <<>>
    /\ product_ids[1] = <<>>

----------------------------------------------------------------------------
(* C16: the only step that removes lines from the cart is the answer to a  *)
(* successful checkout, which removes them all; every other step leaves    *)
(* the cart as it is or appends one line at its end.  Hence a non-empty    *)
(* cart stays non-empty until a checkout succeeds, and every checkout      *)
(* cycle that starts on a non-empty cart issues POST /cart/checkout.       *)

C16_CartStep ==
    \A u \in Users :
        \/ cart_items'[u] = cart_items[u]
        \/ /\ Len(cart_items'[u]) = Len(cart_items[u]) + 1
           /\ SubSeq(cart_items'[u], 1, Len(cart_items[u])) = cart_items[u]
        \/ /\ cart_items'[u] = <<>>
           /\ pc[u] = "checkout"
           /\ req[u] = PostCheckout
           /\ Len(got'[u]) = 1
           /\ Ok(got'[u][1])

C16_CheckoutRetries ==
    \A u \in Users :
        (task[u] = "checkout" /\ pre[u].cart_items # <<>>) =>
            /\ log[u] = <<LogEntry(PostCheckout)>>
            /\ (CycleOver(u) /\ ~Ok(got[u][1])) => cart_items[u] # <<>>

C16_CartKeptUntilCheckoutSucceeds ==
    /\ [][C16_CartStep]_vars
    /\ []C16_CheckoutRetries

C16_Witness ==
    /\ task[1] = "checkout"
    /\ CycleOver(1)
    /\ got[1] # <<>>
    /\ ~Ok(got[1][1])
    /\ Len(cart_items[1]) = 2
    /\ cart_items[1][1] # cart_items[1][2]

----------------------------------------------------------------------------
(* C17: in a browse_product or add_to_cart cycle that starts with no known *)
(* product, a refresh that succeeds and finds at least one identifier is   *)
(* followed in the same cycle by exactly one GET /product/{id} (or by one  *)
(* appended line and one POST /cart) for an identifier of the new          *)
(* product_ids; a refresh that fails leaves product_ids empty.             *)

Elements(seq) == {seq[i] : i \in DOMAIN seq}

Refreshed(u) ==
    /\ RefreshingCycle(u)
    /\ got[u] # <<>>

Found(u) == Ok(got[u][1]) /\ FindAll(got[u][1].body) # <<>>

C17_RefreshThenProceed ==
    \A u \in Users :
        Refreshed(u) =>
            /\ ~Ok(got[u][1]) => product_ids[u] = <<>>
            /\ Found(u) => product_ids[u] = FindAll(got[u][1].body)
            /\ (Found(u) /\ task[u] = "browseProduct") =>
                   /\ Len(log[u]) = 2
                   /\ \E pid \in Elements(product_ids[u]) : log[u][2] = LogEntry(GetProduct(pid))
                   /\ cart_items[u] = pre[u].cart_items
            /\ (Found(u) /\ task[u] = "addToCart") =>
                   /\ locals[u].pid \in Elements(product_ids[u])
                   /\ cart_items[u] = Append(pre[u].cart_items, NewLine(u))
                   /\ pc[u] = "add_appended" => Len(log[u]) = 1
                   /\ pc[u] # "add_appended" =>
                          /\ Len(log[u]) = 2
                          /\ log[u][2] = LogEntry(PostCart(locals[u].pid, locals[u].qty))

C17_Witness ==
    /\ Refreshed(1)
    /\ Found(1)
    /\ task[1] = "addToCart"
    /\ CycleOver(1)
    /\ Len(product_ids[1]) = 2
    /\ product_ids[1][1] # product_ids[1][2]
    /\ locals[1].pid = product_ids[1][2]

----------------------------------------------------------------------------
(* C18: once product_ids is non-empty no step changes it, and a            *)
(* browse_product or add_to_cart cycle that starts with a non-empty        *)
(* product_ids issues no GET /.                                            *)

C18_IdsStep ==
    \A u \in Users : product_ids[u] # <<>> => product_ids'[u] = product_ids[u]

C18_NoRefreshWhenKnown ==
    \A u \in Users :
        (task[u] \in {"browseProduct", "addToCart"} /\ pre[u].product_ids # <<>>) =>
            /\ LogEntry(GetIndex) \notin Elements(log[u])
            /\ product_ids[u] = pre[u].product_ids

C18_IdsFrozenOnceKnown ==
    /\ [][C18_IdsStep]_vars
    /\ []C18_NoRefreshWhenKnown

C18_Witness ==
    /\ task[1] = "browseProduct"
    /\ pre[1].product_ids # <<>>
    /\ CycleOver(1)
    /\ ~Ok(got[1][1])
    /\ product_ids[1] = pre[1].product_ids

----------------------------------------------------------------------------
(* C19: every line of the cart has a non-empty identifier that is in the   *)
(* session's product_ids and a quantity in 1..3; so a non-empty cart       *)
(* implies a non-empty product_ids.                                        *)

C19_CartLinesWellFormed ==
    \A u \in Users :
        /\ \A i \in DOMAIN cart_items[u] :
            /\ cart_items[u][i][1] # <<>>
            /\ cart_items[u][i][1] \in Elements(product_ids[u])
            /\ cart_items[u][i][2] \in 1..3
        /\ cart_items[u] # <<>> => product_ids[u] # <<>>

C19_Witness ==
    /\ Len(cart_items[1]) = 2
    /\ cart_items[1][1][1] # cart_items[1][2][1]
    /\ cart_items[1][1][2] = 1
    /\ cart_items[1][2][2] = 3

====
